---- MODULE Spec2Model ----
(***************************************************************************)
(* FastForge: the directory cleaner (src/src/cleaner.py) and the directory *)
(* zipper (src/src/zipper/zipper.py) as a state machine over a filesystem  *)
(* tree.                                                                   *)
(*                                                                         *)
(* A path below the root directory is a sequence of names; Root is <<>>.   *)
(* tree maps every existing path to [kind, size]: kind is "dir" or "file", *)
(* size is the byte size of a file (its content is identified with it).    *)
(***************************************************************************)
EXTENDS Integers, Sequences, FiniteSets, Bags, TLC

VARIABLES
    rootParts,      \* Path(root_dir).resolve().parts of the root directory
    cwd,            \* the working directory when the archive was opened
    tree,           \* the filesystem below (and including) the root
    rmFail,         \* paths whose removal raises (rmdir/unlink/scandir error)
    addFail,        \* files whose zipf.write raises
    openFail,       \* TRUE when the output archive cannot be opened
    removed_count,  \* DirectoryCleaner.removed_count
    removed_size,   \* DirectoryCleaner.removed_size
    stack,          \* the call stack: names of the active functions
    pc,             \* position within the function on top of the stack
    walk,           \* os.walk(topdown=False): frames of directories entered
    body,           \* the loop body of the directory os.walk has yielded
    initial_count,  \* clean_all: local initial_count
    initial_size,   \* clean_all: local initial_size
    summary,        \* clean_all: the summary it printed, or NoSummary
    exclude_patterns, \* DirectoryZipper.exclude_patterns
    zargs,          \* create_zip: output_path, clean_first, compression_level
    zipf,           \* create_zip: the ZipFile
    archive,        \* bag of the entries written to the ZipFile
    total_files,    \* create_zip: local total_files
    compressed_files, \* create_zip: local compressed_files
    zwalk,          \* os.walk(topdown=True): frames of directories yielded
    zfile,          \* the file between zipf.write and total_files += 1
    result,         \* what the last create_zip returned, or how it ended
    cli,            \* main: the answers typed at the prompts
    compression_level, \* main: local compression_level
    message,        \* main: the last line it printed
    calls,          \* number of calls made on the objects so far
    prevFn,         \* the call completed before the current one
    cur,            \* the current (or last) call and the state it began in
    attempts,       \* bag of the removal calls the DirectoryCleaner made,
                    \* each with the number of the call it was made in
    deleted,        \* every entry deleted since the current call began
    opened,         \* every directory the zipper's os.walk has listed
    notices         \* progress lines create_zip has printed in this call

envVars   == <<rootParts, cwd, rmFail, addFail, openFail>>
statVars  == <<removed_count, removed_size>>
ctlVars   == <<stack, pc>>
walkVars  == <<walk, body>>
caVars    == <<initial_count, initial_size, summary>>
zipVars   == <<zargs, zipf, archive, total_files, compressed_files, zwalk,
               zfile, result, opened, notices>>
cliVars   == <<cli, compression_level, message>>
histVars  == <<calls, prevFn, cur>>

vars == <<envVars, tree, statVars, ctlVars, walkVars, caVars,
          exclude_patterns, zipVars, cliVars, histVars, attempts, deleted>>

---------------------------------------------------------------------------
(* Bounds of the model *)

MaxNodes == 2       \* entries below the root
MaxFaults == 1      \* entries whose removal raises
MaxCalls == 2       \* calls on one DirectoryCleaner
MaxZips == 1        \* calls of create_zip / create_clean_zip on one zipper

---------------------------------------------------------------------------
(* Program constants *)

PYTHON_CLEAN_TARGETS ==
    <<"__pycache__", "*.pyc", "*.pyo", ".pytest_cache", ".coverage",
      "htmlcov", ".tox", ".mypy_cache", ".ruff_cache", "dist", "build",
      "*.egg-info">>

\* a react target list that lacks node_modules
ReactTargetsLackingNodeModules ==
    <<".next", "dist", "build", ".cache", ".parcel-cache", ".nuxt",
      ".output", ".vite", "coverage">>

REACT_CLEAN_TARGETS ==
    <<"node_modules", ".next", "dist", "build", ".cache", ".parcel-cache",
      ".nuxt", ".output", ".vite", "coverage">>

\* a second-loop list that names a directory of neither target set
PyTargetDirsWithSrc ==
    <<".pytest_cache", ".mypy_cache", ".ruff_cache", "dist", "build", "src">>

\* the literal list of clean_python_cache's second loop
PyTargetDirs ==
    <<".pytest_cache", ".mypy_cache", ".ruff_cache", "dist", "build">>

\* str.endswith on the names that have one of the suffixes the code tests
EndsWith(name, suffix) ==
    <<name, suffix>> \in
        { <<"x.pyc", ".pyc">>, <<"y.pyo", ".pyo">>,
          <<"pkg.egg-info", ".egg-info">> }

Range(s) == {s[i] : i \in 1..Len(s)}

---------------------------------------------------------------------------
(* The filesystem *)

Root == <<>>

Dir == [kind |-> "dir", size |-> 0]
File(n) == [kind |-> "file", size |-> n]

IsPrefix(p, q) == Len(p) <= Len(q) /\ SubSeq(q, 1, Len(p)) = p
Parent(p) == SubSeq(p, 1, Len(p) - 1)
Name(p) == p[Len(p)]
Join(p, name) == p \o <<name>>

Exists(t, p) == p \in DOMAIN t
IsDir(t, p) == p \in DOMAIN t /\ t[p].kind = "dir"
IsFile(t, p) == p \in DOMAIN t /\ t[p].kind = "file"

Children(t, p) == {q \in DOMAIN t : Len(q) = Len(p) + 1 /\ Parent(q) = p}
\* os.scandir: the names of the subdirectories and of the files of p
ListDirs(t, p) == {Name(q) : q \in {c \in Children(t, p) : t[c].kind = "dir"}}
ListFiles(t, p) == {Name(q) : q \in {c \in Children(t, p) : t[c].kind = "file"}}

Subtree(t, p) == {q \in DOMAIN t : IsPrefix(p, q)}
Without(t, S) == [q \in DOMAIN t \ S |-> t[q]]

RECURSIVE SumSizes(_, _)
SumSizes(t, S) ==
    IF S = {} THEN 0
    ELSE LET p == CHOOSE q \in S : TRUE
         IN  t[p].size + SumSizes(t, S \ {p})

get_directory_size(t, p) ==
    SumSizes(t, {q \in Subtree(t, p) : t[q].kind = "file"})

\* shutil.rmtree(p): everything under p goes, unless an entry under p cannot
\* be removed; then it raises, having removed some of the entries that do not
\* hold the failing one (children go before their parents).
Blocked(t, p, bad) ==
    {q \in Subtree(t, p) : \E b \in bad \cap Subtree(t, p) : IsPrefix(q, b)}

\* an rmtree that empties p and leaves the directory p itself standing
rmtree_contents_only(t, p, bad) ==
    {[ok |-> TRUE, gone |-> Subtree(t, p) \ {p}]}

rmtree(t, p, bad) ==
    IF Subtree(t, p) \cap bad = {}
    THEN {[ok |-> TRUE, gone |-> Subtree(t, p)]}
    ELSE {[ok |-> FALSE, gone |-> S] :
            S \in {X \in SUBSET (Subtree(t, p) \ Blocked(t, p, bad)) :
                     \A q \in X : Subtree(t, q) \subseteq X}}

Gone(t, S) == {[path |-> q, kind |-> t[q].kind] : q \in S}

---------------------------------------------------------------------------
(* os.walk(root_dir, topdown=False) *)

Frame(t, p) ==
    [root |-> p, dirs |-> ListDirs(t, p), files |-> ListFiles(t, p),
     pending |-> ListDirs(t, p)]

\* the stacks os.walk can stand in when it next yields: from the stack w it
\* enters subdirectories not walked yet, in any order, as deep as they go
RECURSIVE Descents(_, _)
Descents(t, w) ==
    LET top == w[Len(w)]
    IN  IF top.pending = {} THEN {w}
        ELSE UNION { Descents(t,
                        [w EXCEPT ![Len(w)].pending = @ \ {d}]
                          \o <<Frame(t, Join(top.root, d))>>) :
                     d \in top.pending }

\* os.walk lists a directory that does not exist as nothing at all
StartWalk(t) == IF IsDir(t, Root) THEN <<Frame(t, Root)>> ELSE <<>>

NoBody == [root |-> Root, ops |-> <<>>, eggs |-> {}, pyc |-> {}]
HasWork(b) == b.ops # <<>> \/ b.eggs # {} \/ b.pyc # {}

\* clean_python_cache's loop body for one yielded (root, dirs, files)
PythonBody(f) ==
    [root |-> f.root,
     ops  |-> (IF "__pycache__" \in f.dirs THEN <<"__pycache__">> ELSE <<>>)
              \o SelectSeq(PyTargetDirs, LAMBDA d : d \in f.dirs),
     eggs |-> {d \in f.dirs : EndsWith(d, ".egg-info")},
     pyc  |-> {n \in f.files : EndsWith(n, ".pyc") \/ EndsWith(n, ".pyo")}]

\* clean_react_cache's loop body
ReactBody(f) ==
    [root |-> f.root,
     ops  |-> SelectSeq(REACT_CLEAN_TARGETS, LAMBDA d : d \in f.dirs),
     eggs |-> {},
     pyc  |-> {}]

Top == stack[Len(stack)]
InPass == pc = "walk" /\ stack # <<>>
             /\ Top \in {"clean_python_cache", "clean_react_cache"}

---------------------------------------------------------------------------
(* Initial state: an empty root directory, a fresh DirectoryCleaner and a  *)
(* fresh DirectoryZipper on it                                             *)

NoSummary == [printed |-> FALSE, folders |-> 0, bytes |-> 0]
NoCall == [fn |-> "none", count0 |-> 0, size0 |-> 0, tree0 |-> <<>>]
NoArgs == [output_path |-> "None", clean_first |-> FALSE,
           compression_level |-> 0]
NoZip == [state |-> "none", name |-> "None", level |-> 0]
EmptyTree == (Root :> Dir)
NoCli == [choice |-> "", output |-> "", level |-> <<>>, confirm |-> <<>>]

InitIn(roots, trees) ==
    /\ rootParts \in roots
    /\ cwd = "elsewhere"
    /\ tree \in trees
    /\ rmFail = {}
    /\ addFail = {}
    /\ openFail = FALSE
    /\ removed_count = 0
    /\ removed_size = 0
    /\ stack = <<>>
    /\ pc = "idle"
    /\ walk = <<>>
    /\ body = NoBody
    /\ initial_count = 0
    /\ initial_size = 0
    /\ summary = NoSummary
    /\ exclude_patterns = {}
    /\ zargs = NoArgs
    /\ zipf = NoZip
    /\ archive = EmptyBag
    /\ total_files = 0
    /\ compressed_files = 0
    /\ zwalk = <<>>
    /\ zfile = "None"
    /\ result = "None"
    /\ cli = NoCli
    /\ compression_level = 0
    /\ message = ""
    /\ calls = 0
    /\ prevFn = "none"
    /\ cur = NoCall
    /\ attempts = EmptyBag
    /\ deleted = {}
    /\ opened = {}
    /\ notices = 0

---------------------------------------------------------------------------
(* The environment: it builds the tree before the first call *)

SizeOf(name) == IF name = "x.pyc" THEN 2 ELSE 1

progVars == <<statVars, ctlVars, walkVars, caVars, exclude_patterns,
              zipVars, cliVars, histVars, attempts, deleted>>

Quiet == pc = "idle" /\ calls = 0
Faults == Cardinality(rmFail) + Cardinality(addFail)
             + (IF openFail THEN 1 ELSE 0)

EnvMkdir(names) ==
    /\ Quiet
    /\ Cardinality(DOMAIN tree) <= MaxNodes
    /\ \E p \in DOMAIN tree, n \in names :
        /\ IsDir(tree, p)
        /\ Join(p, n) \notin DOMAIN tree
        /\ tree' = (Join(p, n) :> Dir) @@ tree
    /\ UNCHANGED <<envVars, progVars>>

EnvTouch(names) ==
    /\ Quiet
    /\ Cardinality(DOMAIN tree) <= MaxNodes
    /\ \E p \in DOMAIN tree, n \in names :
        /\ IsDir(tree, p)
        /\ Join(p, n) \notin DOMAIN tree
        /\ tree' = (Join(p, n) :> File(SizeOf(n))) @@ tree
    /\ UNCHANGED <<envVars, progVars>>

EnvRmFault ==
    /\ Quiet
    /\ Faults < MaxFaults
    /\ \E p \in DOMAIN tree \ ({Root} \cup rmFail) : rmFail' = rmFail \cup {p}
    /\ UNCHANGED <<rootParts, cwd, addFail, openFail, tree, progVars>>

EnvAddFault ==
    /\ Quiet
    /\ Faults < MaxFaults
    /\ \E p \in DOMAIN tree \ addFail :
        /\ IsFile(tree, p)
        /\ addFail' = addFail \cup {p}
    /\ UNCHANGED <<rootParts, cwd, rmFail, openFail, tree, progVars>>

EnvOpenFault ==
    /\ Quiet
    /\ Faults < MaxFaults
    /\ ~openFail
    /\ openFail' = TRUE
    /\ UNCHANGED <<rootParts, cwd, rmFail, addFail, tree, progVars>>

---------------------------------------------------------------------------
(* DirectoryCleaner *)

BeginCall(fn) ==
    /\ calls' = calls + 1
    /\ prevFn' = cur.fn
    /\ cur' = [fn |-> fn, count0 |-> removed_count, size0 |-> removed_size,
               tree0 |-> tree]
    /\ deleted' = {}

CanCall == pc = "idle" /\ stack = <<>> /\ calls < MaxCalls
CanZip == pc = "idle" /\ stack = <<>> /\ calls < MaxZips

\* clean_python_cache() is called: os.walk lists the root
CallCleanPython ==
    /\ CanCall
    /\ BeginCall("clean_python_cache")
    /\ stack' = <<"clean_python_cache">>
    /\ pc' = "walk"
    /\ walk' = StartWalk(tree)
    /\ body' = NoBody
    /\ summary' = NoSummary
    /\ UNCHANGED <<envVars, tree, statVars, initial_count, initial_size,
                   exclude_patterns, zipVars, cliVars, attempts>>

\* clean_react_cache() is called: os.walk lists the root
CallCleanReact ==
    /\ CanCall
    /\ BeginCall("clean_react_cache")
    /\ stack' = <<"clean_react_cache">>
    /\ pc' = "walk"
    /\ walk' = StartWalk(tree)
    /\ body' = NoBody
    /\ summary' = NoSummary
    /\ UNCHANGED <<envVars, tree, statVars, initial_count, initial_size,
                   exclude_patterns, zipVars, cliVars, attempts>>

\* clean_all() up to and including its call of clean_python_cache(), on the
\* counters c and s of the DirectoryCleaner it is called on
clean_all(callers, c, s) ==
    /\ initial_count' = c
    /\ initial_size' = s
    /\ stack' = callers \o <<"clean_all", "clean_python_cache">>
    /\ pc' = "walk"
    /\ walk' = StartWalk(tree)
    /\ body' = NoBody
    /\ summary' = NoSummary

CallCleanAll ==
    /\ CanCall
    /\ BeginCall("clean_all")
    /\ clean_all(<<>>, removed_count, removed_size)
    /\ UNCHANGED <<envVars, tree, statVars, exclude_patterns, zipVars,
                   cliVars, attempts>>

\* next() of os.walk: it enters and lists subdirectories until it stands in
\* one whose subdirectories were all walked, and yields that one to the loop
\* body
WalkNext ==
    /\ InPass /\ ~HasWork(body) /\ walk # <<>>
    /\ \E w \in Descents(tree, walk) :
         /\ body' = IF Top = "clean_python_cache"
                    THEN PythonBody(w[Len(w)]) ELSE ReactBody(w[Len(w)])
         /\ walk' = SubSeq(w, 1, Len(w) - 1)
    /\ UNCHANGED <<envVars, tree, statVars, ctlVars, caVars,
                   exclude_patterns, zipVars, cliVars, histVars, attempts,
                   deleted>>

\* a remove_folder that counts the folder before shutil.rmtree is called
remove_folder_counting_first(p) ==
    IF Exists(tree, p)
    THEN \E r \in rmtree(tree, p, rmFail) :
           LET size == get_directory_size(tree, p)
           IN  /\ tree' = Without(tree, r.gone)
               /\ deleted' = deleted \cup Gone(tree, r.gone)
               /\ removed_count' = removed_count + 1
               /\ removed_size' = IF r.ok THEN removed_size + size
                                  ELSE removed_size
               /\ attempts' = attempts (+) SetToBag({
                     [op |-> "remove_folder", path |-> p, ok |-> r.ok,
                      size |-> IF r.ok THEN size ELSE 0, call |-> calls]})
    ELSE /\ attempts' = attempts (+) SetToBag({
               [op |-> "remove_folder", path |-> p, ok |-> FALSE, size |-> 0,
                call |-> calls]})
         /\ UNCHANGED <<tree, deleted, removed_count, removed_size>>

\* remove_folder(folder_path)
remove_folder(p) ==
    IF Exists(tree, p)
    THEN \E r \in rmtree(tree, p, rmFail) :
           LET size == get_directory_size(tree, p)
           IN  /\ tree' = Without(tree, r.gone)
               /\ deleted' = deleted \cup Gone(tree, r.gone)
               /\ removed_count' = IF r.ok THEN removed_count + 1
                                   ELSE removed_count
               /\ removed_size' = IF r.ok THEN removed_size + size
                                  ELSE removed_size
               /\ attempts' = attempts (+) SetToBag({
                     [op |-> "remove_folder", path |-> p, ok |-> r.ok,
                      size |-> IF r.ok THEN size ELSE 0, call |-> calls]})
    ELSE /\ attempts' = attempts (+) SetToBag({
               [op |-> "remove_folder", path |-> p, ok |-> FALSE, size |-> 0,
                call |-> calls]})
         /\ UNCHANGED <<tree, deleted, removed_count, removed_size>>

\* a loop body in which a remove_folder that fails ends the pass: nothing
\* more of this directory is done and the walk yields no more
RemoveFolderStepAborting ==
    /\ InPass /\ (body.ops # <<>> \/ body.eggs # {})
    /\ \E d \in (IF body.ops # <<>> THEN {Head(body.ops)} ELSE body.eggs) :
         /\ remove_folder(Join(body.root, d))
         /\ IF removed_count' = removed_count
            THEN body' = NoBody /\ walk' = <<>>
            ELSE /\ body' = IF body.ops # <<>>
                            THEN [body EXCEPT !.ops = Tail(@)]
                            ELSE [body EXCEPT !.eggs = @ \ {d}]
                 /\ walk' = walk
    /\ UNCHANGED <<envVars, ctlVars, caVars, exclude_patterns, zipVars,
                   cliVars, histVars>>

\* the next remove_folder call of the loop body
RemoveFolderStep ==
    /\ InPass /\ (body.ops # <<>> \/ body.eggs # {})
    /\ IF body.ops # <<>>
       THEN /\ remove_folder(Join(body.root, Head(body.ops)))
            /\ body' = [body EXCEPT !.ops = Tail(@)]
       ELSE \E d \in body.eggs :
            /\ remove_folder(Join(body.root, d))
            /\ body' = [body EXCEPT !.eggs = @ \ {d}]
    /\ UNCHANGED <<envVars, ctlVars, walk, caVars, exclude_patterns, zipVars,
                   cliVars, histVars>>

\* a file loop that counts a removed file as a removed folder
RemoveFileStepCounting ==
    /\ InPass /\ body.ops = <<>> /\ body.eggs = {} /\ body.pyc # {}
    /\ \E n \in body.pyc :
         LET p == Join(body.root, n)
             ok == p \in DOMAIN tree /\ p \notin rmFail
         IN  /\ tree' = IF ok THEN Without(tree, {p}) ELSE tree
             /\ deleted' = IF ok THEN deleted \cup Gone(tree, {p})
                           ELSE deleted
             /\ removed_count' = IF ok THEN removed_count + 1
                                 ELSE removed_count
             /\ attempts' = attempts (+) SetToBag({
                   [op |-> "os.remove", path |-> p, ok |-> ok, size |-> 0,
                    call |-> calls]})
             /\ body' = [body EXCEPT !.pyc = @ \ {n}]
    /\ UNCHANGED <<envVars, removed_size, ctlVars, walk, caVars,
                   exclude_patterns, zipVars, cliVars, histVars>>

\* a file loop that adds the size of a removed file to removed_size
RemoveFileStepSizing ==
    /\ InPass /\ body.ops = <<>> /\ body.eggs = {} /\ body.pyc # {}
    /\ \E n \in body.pyc :
         LET p == Join(body.root, n)
             ok == p \in DOMAIN tree /\ p \notin rmFail
         IN  /\ tree' = IF ok THEN Without(tree, {p}) ELSE tree
             /\ deleted' = IF ok THEN deleted \cup Gone(tree, {p})
                           ELSE deleted
             /\ removed_size' = IF ok THEN removed_size + tree[p].size
                                ELSE removed_size
             /\ attempts' = attempts (+) SetToBag({
                   [op |-> "os.remove", path |-> p, ok |-> ok, size |-> 0,
                    call |-> calls]})
             /\ body' = [body EXCEPT !.pyc = @ \ {n}]
    /\ UNCHANGED <<envVars, removed_count, ctlVars, walk, caVars,
                   exclude_patterns, zipVars, cliVars, histVars>>

\* os.remove(file_path) of the loop over files
RemoveFileStep ==
    /\ InPass /\ body.ops = <<>> /\ body.eggs = {} /\ body.pyc # {}
    /\ \E n \in body.pyc :
         LET p == Join(body.root, n)
             ok == p \in DOMAIN tree /\ p \notin rmFail
         IN  /\ tree' = IF ok THEN Without(tree, {p}) ELSE tree
             /\ deleted' = IF ok THEN deleted \cup Gone(tree, {p})
                           ELSE deleted
             /\ attempts' = attempts (+) SetToBag({
                   [op |-> "os.remove", path |-> p, ok |-> ok, size |-> 0,
                    call |-> calls]})
             /\ body' = [body EXCEPT !.pyc = @ \ {n}]
    /\ UNCHANGED <<envVars, statVars, ctlVars, walk, caVars,
                   exclude_patterns, zipVars, cliVars, histVars>>

PassOver == InPass /\ ~HasWork(body) /\ walk = <<>>

\* a pass that clean_all did not call returns, to main when that called it
PassReturn ==
    /\ PassOver
    /\ IF Len(stack) = 1 THEN TRUE ELSE stack[Len(stack) - 1] # "clean_all"
    /\ stack' = SubSeq(stack, 1, Len(stack) - 1)
    /\ pc' = IF Len(stack) = 1 THEN "idle" ELSE "return"
    /\ UNCHANGED <<envVars, tree, statVars, walkVars, caVars,
                   exclude_patterns, zipVars, cliVars, histVars, attempts,
                   deleted>>

\* clean_all: clean_python_cache() returned, clean_react_cache() is called
CleanAllReact ==
    /\ PassOver /\ Len(stack) >= 2 /\ Top = "clean_python_cache"
    /\ stack[Len(stack) - 1] = "clean_all"
    /\ stack' = [stack EXCEPT ![Len(stack)] = "clean_react_cache"]
    /\ walk' = StartWalk(tree)
    /\ UNCHANGED <<envVars, tree, statVars, pc, body, caVars,
                   exclude_patterns, zipVars, cliVars, histVars, attempts,
                   deleted>>

\* a clean_all that prints the counters themselves
CleanAllSummaryTotals ==
    /\ PassOver /\ Len(stack) >= 2 /\ Top = "clean_react_cache"
    /\ summary' = [printed |-> TRUE,
                   folders |-> removed_count,
                   bytes |-> removed_size]
    /\ stack' = SubSeq(stack, 1, Len(stack) - 2)
    /\ pc' = IF Len(stack) = 2 THEN "idle"
           ELSE IF stack[Len(stack) - 2] = "create_zip" THEN "open"
           ELSE "return"
    /\ UNCHANGED <<envVars, tree, statVars, walkVars, initial_count,
                   initial_size, exclude_patterns, zipVars, cliVars,
                   histVars, attempts, deleted>>

\* clean_all: clean_react_cache() returned, the summary is printed and
\* clean_all returns, to create_zip or to main when that called it
CleanAllSummary ==
    /\ PassOver /\ Len(stack) >= 2 /\ Top = "clean_react_cache"
    /\ summary' = [printed |-> TRUE,
                   folders |-> removed_count - initial_count,
                   bytes |-> removed_size - initial_size]
    /\ stack' = SubSeq(stack, 1, Len(stack) - 2)
    /\ pc' = IF Len(stack) = 2 THEN "idle"
           ELSE IF stack[Len(stack) - 2] = "create_zip" THEN "open"
           ELSE "return"
    /\ UNCHANGED <<envVars, tree, statVars, walkVars, initial_count,
                   initial_size, exclude_patterns, zipVars, cliVars,
                   histVars, attempts, deleted>>

---------------------------------------------------------------------------
(* DirectoryZipper *)

\* a built-in list that lacks node_modules
CachePatternsLackingNodeModules ==
    <<"__pycache__", ".next", ".git", ".vscode", ".idea", "dist", "build",
      ".cache">>

cache_patterns ==
    <<"__pycache__", "node_modules", ".next", ".git", ".vscode", ".idea",
      "dist", "build", ".cache">>

\* a should_exclude that takes a pattern found inside a segment for a match
should_exclude_substring(parts, patterns) ==
    \/ \E i \in 1..Len(parts) : \E q \in patterns :
          parts[i] = q \/ <<parts[i], q>> \in {<<"tmpfile", "tmp">>}
    \/ \E j \in 1..Len(cache_patterns) : cache_patterns[j] \in Range(parts)

\* should_exclude(file_path), on Path(file_path).parts
should_exclude(parts, patterns) ==
    \/ \E i \in 1..Len(parts) : parts[i] \in patterns
    \/ \E j \in 1..Len(cache_patterns) : cache_patterns[j] \in Range(parts)

\* os.path.join(root, name) for the path p below the source directory
AbsParts(p) == rootParts \o p

\* os.path.relpath(file_path, self.source_dir.parent)
SourceParent == SubSeq(rootParts, 1, Len(rootParts) - 1)
relpath(parts, base) == SubSeq(parts, Len(base) + 1, Len(parts))

\* the name of the archive: output_path, or the generated one
OutputName(output_path) ==
    IF output_path = "None"
    THEN rootParts[Len(rootParts)] \o "_cleaned_" \o "T" \o ".zip"
    ELSE output_path

\* a yielded (root, dirs, files) whose dirs the loop body leaves as listed
ZipFrameUnpruned(t, p) ==
    [root |-> p, pending |-> ListDirs(t, p), files |-> ListFiles(t, p)]

\* one yielded (root, dirs, files) of os.walk(topdown=True), its dirs
\* pruned by the loop body
ZipFrame(t, p) ==
    [root |-> p,
     pending |-> {d \in ListDirs(t, p) :
                    ~should_exclude(AbsParts(Join(p, d)), exclude_patterns)},
     files |-> ListFiles(t, p)]

\* the frames whose files and subdirectories are all done are left
RECURSIVE Unwind(_)
Unwind(w) ==
    IF w # <<>> /\ w[Len(w)].pending = {} /\ w[Len(w)].files = {}
    THEN Unwind(SubSeq(w, 1, Len(w) - 1))
    ELSE w

\* add_exclude_patterns(patterns): a str is made a list of one pattern, and
\* the set is updated with the elements of the list
add_exclude_patterns(patterns) ==
    /\ pc = "idle" /\ stack = <<>> /\ calls = 0
    /\ LET list == IF patterns.kind = "str" THEN <<patterns.val>>
                   ELSE patterns.val
       IN  /\ ~(Range(list) \subseteq exclude_patterns)
           /\ exclude_patterns' = exclude_patterns \cup Range(list)
    /\ UNCHANGED <<envVars, tree, statVars, ctlVars, walkVars, caVars,
                   zipVars, cliVars, histVars, attempts, deleted>>

\* a create_zip that runs the cleaning whatever clean_first says
create_zip_cleaning_always(callers, output_path, clean_first, level) ==
    /\ zargs' = [output_path |-> output_path, clean_first |-> clean_first,
                 compression_level |-> level]
    /\ zipf' = NoZip
    /\ archive' = EmptyBag
    /\ zwalk' = <<>>
    /\ zfile' = "None"
    /\ result' = "None"
    /\ opened' = {}
    /\ notices' = 0
    /\ attempts' = EmptyBag
    /\ UNCHANGED <<total_files, compressed_files>>
    /\ removed_count' = 0
    /\ removed_size' = 0
    /\ clean_all(callers \o <<"create_zip">>, 0, 0)

\* create_zip(output_path, clean_first, compression_level) up to the with
\* statement: with clean_first, a new DirectoryCleaner runs clean_all()
create_zip(callers, output_path, clean_first, level) ==
    /\ zargs' = [output_path |-> output_path, clean_first |-> clean_first,
                 compression_level |-> level]
    /\ zipf' = NoZip
    /\ archive' = EmptyBag
    /\ zwalk' = <<>>
    /\ zfile' = "None"
    /\ result' = "None"
    /\ opened' = {}
    /\ notices' = 0
    /\ attempts' = EmptyBag
    /\ UNCHANGED <<total_files, compressed_files>>
    /\ IF clean_first
       THEN /\ removed_count' = 0
            /\ removed_size' = 0
            /\ clean_all(callers \o <<"create_zip">>, 0, 0)
       ELSE /\ stack' = callers \o <<"create_zip">>
            /\ pc' = "open"
            /\ UNCHANGED <<statVars, walkVars, caVars>>

CallCreateZip(outputs, levels) ==
    /\ CanZip
    /\ BeginCall("create_zip")
    /\ \E o \in outputs, c \in BOOLEAN, l \in levels :
         create_zip(<<>>, o, c, l)
    /\ UNCHANGED <<envVars, tree, exclude_patterns, cliVars>>

\* a create_clean_zip that does not ask for the cleaning
CallCreateCleanZipAsIs(outputs) ==
    /\ CanZip
    /\ BeginCall("create_clean_zip")
    /\ \E o \in outputs : create_zip(<<"create_clean_zip">>, o, FALSE, 6)
    /\ UNCHANGED <<envVars, tree, exclude_patterns, cliVars>>

\* create_clean_zip(output_path)
CallCreateCleanZip(outputs) ==
    /\ CanZip
    /\ BeginCall("create_clean_zip")
    /\ \E o \in outputs : create_zip(<<"create_clean_zip">>, o, TRUE, 6)
    /\ UNCHANGED <<envVars, tree, exclude_patterns, cliVars>>

InZip(at) == pc = at /\ stack # <<>> /\ Top = "create_zip"

\* the working directory is the source directory itself, when there is such
\* a directory, or another one
Cwds == {"root", "elsewhere"}

\* the counters are reset, ZipFile(output_path, 'w', ...) creates the archive
\* file in the working directory and os.walk yields the source directory
ZipOpen ==
    /\ InZip("open") /\ ~openFail
    /\ \E wd \in {c \in Cwds : c = "root" => IsDir(tree, Root)} :
       LET name == OutputName(zargs.output_path)
           t == IF wd = "root" THEN (<<name>> :> File(0)) @@ tree ELSE tree
       IN  /\ cwd' = wd
           /\ tree' = t
           /\ zipf' = [state |-> "open", name |-> name,
                       level |-> zargs.compression_level]
           /\ zwalk' = IF IsDir(t, Root)
                       THEN Unwind(<<ZipFrame(t, Root)>>) ELSE <<>>
           /\ opened' = IF IsDir(t, Root) THEN {Root} ELSE {}
    /\ total_files' = 0
    /\ compressed_files' = 0
    /\ pc' = "files"
    /\ UNCHANGED <<rootParts, rmFail, addFail, openFail, statVars, stack, walkVars, caVars,
                   exclude_patterns, zargs, notices,
                   archive, zfile, result, cliVars,
                   histVars, attempts, deleted>>

\* a ZipFile(...) that raises with nothing in main to catch it: the
\* exception leaves main too and nothing is printed
ZipOpenFailsUncaught ==
    /\ InZip("open") /\ openFail
    /\ result' = "raised"
    /\ message' = message
    /\ stack' = <<>>
    /\ pc' = "idle"
    /\ total_files' = 0
    /\ compressed_files' = 0
    /\ UNCHANGED <<envVars, tree, statVars, walkVars, caVars,
                   exclude_patterns, zargs, notices,
                   zipf, archive, zwalk, zfile,
                   opened, cli, compression_level, histVars, attempts,
                   deleted>>

\* ZipFile(...) raises: create_zip and its callers are left by the exception
\* and main prints the error
ZipOpenFails ==
    /\ InZip("open") /\ openFail
    /\ result' = "raised"
    /\ message' = IF stack[1] = "main" THEN "An error occurred" ELSE message
    /\ stack' = <<>>
    /\ pc' = "idle"
    /\ total_files' = 0
    /\ compressed_files' = 0
    /\ UNCHANGED <<envVars, tree, statVars, walkVars, caVars,
                   exclude_patterns, zargs, notices,
                   zipf, archive, zwalk, zfile,
                   opened, cli, compression_level, histVars, attempts,
                   deleted>>

\* the number of added files between two progress lines
ProgressEvery == 100

\* a test that is true from the hundredth added file on
ProgressNoticeFromHundred(n) ==
    n >= ProgressEvery

\* if compressed_files % 100 == 0: print("Compressed ... files...")
ProgressNotice(n) ==
    n % ProgressEvery = 0

\* the record of one zipf.write(file_path, rel_path) call
zipf_write(p, ok) ==
    [op |-> "zipf.write", path |-> p, ok |-> ok, size |-> 0, call |-> calls]

\* a loop in which a zipf.write that raises ends the walk: the files and
\* directories not yet visited are left out and the archive is closed
ZipFileAborting ==
    /\ InZip("files") /\ zwalk # <<>>
    /\ LET top == zwalk[Len(zwalk)]
       IN  \E f \in top.files :
           LET p == Join(top.root, f)
               file_path == AbsParts(p)
               rel_path == relpath(file_path, SourceParent)
               ok == IsFile(tree, p) /\ p \notin addFail
           IN  IF should_exclude(file_path, exclude_patterns)
               THEN /\ zwalk' = Unwind([zwalk EXCEPT
                                  ![Len(zwalk)].files = @ \ {f}])
                    /\ UNCHANGED <<archive, compressed_files, notices, zfile, pc,
                                   attempts>>
               ELSE /\ attempts' = attempts (+) SetToBag({zipf_write(p, ok)})
                    /\ IF ok
                       THEN /\ archive' = archive (+) SetToBag({
                                 [name |-> rel_path, src |-> p,
                                  size |-> tree[p].size]})
                            /\ compressed_files' = compressed_files + 1
                            /\ notices' = IF ProgressNotice(compressed_files + 1)
                                          THEN notices + 1 ELSE notices
                            /\ zfile' = f
                            /\ pc' = "count"
                            /\ UNCHANGED zwalk
                       ELSE /\ zwalk' = <<>>
                            /\ UNCHANGED <<archive, compressed_files, notices, zfile,
                                           pc>>
    /\ UNCHANGED <<envVars, tree, statVars, stack, walkVars, caVars,
                   exclude_patterns, zargs, zipf, total_files, result,
                   opened, cliVars, histVars, deleted>>

\* a loop that counts a file in total_files before it tests the exclusion
ZipFileCountingSkipped ==
    /\ InZip("files") /\ zwalk # <<>>
    /\ LET top == zwalk[Len(zwalk)]
       IN  \E f \in top.files :
           LET p == Join(top.root, f)
               file_path == AbsParts(p)
               rel_path == relpath(file_path, SourceParent)
               ok == IsFile(tree, p) /\ p \notin addFail
           IN  IF should_exclude(file_path, exclude_patterns)
               THEN /\ zwalk' = Unwind([zwalk EXCEPT
                                  ![Len(zwalk)].files = @ \ {f}])
                    /\ total_files' = total_files + 1
                    /\ UNCHANGED <<archive, compressed_files, notices, zfile, pc,
                                   attempts>>
               ELSE /\ zfile' = f
                    /\ pc' = "count"
                    /\ attempts' = attempts (+) SetToBag({zipf_write(p, ok)})
                    /\ IF ok
                       THEN /\ archive' = archive (+) SetToBag({
                                 [name |-> rel_path, src |-> p,
                                  size |-> tree[p].size]})
                            /\ compressed_files' = compressed_files + 1
                            /\ notices' = IF ProgressNotice(compressed_files + 1)
                                          THEN notices + 1 ELSE notices
                       ELSE UNCHANGED <<archive, compressed_files, notices>>
                    /\ UNCHANGED <<zwalk, total_files>>
    /\ UNCHANGED <<envVars, tree, statVars, stack, walkVars, caVars,
                   exclude_patterns, zargs, zipf, result,
                   opened, cliVars, histVars, deleted>>

\* one file of the yielded directory: excluded, or zipf.write is tried
ZipFile ==
    /\ InZip("files") /\ zwalk # <<>>
    /\ LET top == zwalk[Len(zwalk)]
       IN  \E f \in top.files :
           LET p == Join(top.root, f)
               file_path == AbsParts(p)
               rel_path == relpath(file_path, SourceParent)
           IN  IF should_exclude(file_path, exclude_patterns)
               THEN /\ zwalk' = Unwind([zwalk EXCEPT
                                  ![Len(zwalk)].files = @ \ {f}])
                    /\ UNCHANGED <<archive, compressed_files, notices, zfile, pc,
                                   attempts>>
               ELSE /\ zfile' = f
                    /\ pc' = "count"
                    /\ attempts' = attempts (+) SetToBag({
                          zipf_write(p, IsFile(tree, p) /\ p \notin addFail)})
                    /\ IF IsFile(tree, p) /\ p \notin addFail
                       THEN /\ archive' = archive (+) SetToBag({
                                 [name |-> rel_path, src |-> p,
                                  size |-> tree[p].size]})
                            /\ compressed_files' = compressed_files + 1
                            /\ notices' = IF ProgressNotice(compressed_files + 1)
                                          THEN notices + 1 ELSE notices
                       ELSE UNCHANGED <<archive, compressed_files, notices>>
                    /\ UNCHANGED zwalk
    /\ UNCHANGED <<envVars, tree, statVars, stack, walkVars, caVars,
                   exclude_patterns, zargs, zipf, total_files, result,
                   opened, cliVars, histVars, deleted>>

\* a loop that counts in total_files only the files that were added
ZipCountAddedOnly ==
    /\ InZip("count")
    /\ total_files' = compressed_files
    /\ zwalk' = Unwind([zwalk EXCEPT ![Len(zwalk)].files = @ \ {zfile}])
    /\ zfile' = "None"
    /\ pc' = "files"
    /\ UNCHANGED <<envVars, tree, statVars, stack, walkVars, caVars,
                   exclude_patterns, zargs, notices, zipf, archive,
                   compressed_files, result, opened, cliVars, histVars,
                   attempts, deleted>>

\* total_files += 1, and on to the next file
ZipCount ==
    /\ InZip("count")
    /\ total_files' = total_files + 1
    /\ zwalk' = Unwind([zwalk EXCEPT ![Len(zwalk)].files = @ \ {zfile}])
    /\ zfile' = "None"
    /\ pc' = "files"
    /\ UNCHANGED <<envVars, tree, statVars, stack, walkVars, caVars,
                   exclude_patterns, zargs, notices,
                   zipf, archive, compressed_files,
                   result, opened, cliVars, histVars, attempts, deleted>>

\* a walk that enters a subdirectory and keeps it on the list of those
\* still to enter
ZipDescendAgain ==
    /\ InZip("files") /\ zwalk # <<>>
    /\ LET top == zwalk[Len(zwalk)]
       IN  /\ top.files = {}
           /\ \E d \in top.pending :
                LET p == Join(top.root, d)
                IN  /\ zwalk' = Unwind(zwalk \o <<ZipFrame(tree, p)>>)
                    /\ opened' = opened \cup {p}
    /\ UNCHANGED <<envVars, tree, statVars, ctlVars, walkVars, caVars,
                   exclude_patterns, zargs, notices,
                   zipf, archive, total_files,
                   compressed_files, zfile, result, cliVars, histVars,
                   attempts, deleted>>

\* os.walk enters a subdirectory that was not pruned and yields it
ZipDescend ==
    /\ InZip("files") /\ zwalk # <<>>
    /\ LET top == zwalk[Len(zwalk)]
       IN  /\ top.files = {}
           /\ \E d \in top.pending :
                LET p == Join(top.root, d)
                IN  /\ zwalk' = Unwind(
                          [zwalk EXCEPT ![Len(zwalk)].pending = @ \ {d}]
                            \o <<ZipFrame(tree, p)>>)
                    /\ opened' = opened \cup {p}
    /\ UNCHANGED <<envVars, tree, statVars, ctlVars, walkVars, caVars,
                   exclude_patterns, zargs, notices,
                   zipf, archive, total_files,
                   compressed_files, zfile, result, cliVars, histVars,
                   attempts, deleted>>

\* the byte size of the closed archive: its entries and its directory
RECURSIVE EntriesSize(_)
EntriesSize(S) ==
    IF S = {} THEN 0
    ELSE LET e == CHOOSE x \in S : TRUE
         IN  e.size * CopiesIn(e, archive) + EntriesSize(S \ {e})

ArchiveSize == 1 + EntriesSize(BagToSet(archive))

\* the walk is over: the archive is closed, the summary printed and the
\* output path returned (main prints its last line)
ZipFinish ==
    /\ InZip("files") /\ zwalk = <<>>
    /\ zipf' = [zipf EXCEPT !.state = "closed"]
    /\ tree' = IF cwd = "root"
               THEN [tree EXCEPT ![<<zipf.name>>] = File(ArchiveSize)]
               ELSE tree
    /\ result' = zipf.name
    /\ message' = IF stack[1] = "main" THEN "Zip creation completed"
                  ELSE message
    /\ stack' = <<>>
    /\ pc' = "idle"
    /\ UNCHANGED <<envVars, statVars, walkVars, caVars,
                   exclude_patterns, zargs, notices,
                   archive, total_files,
                   compressed_files, zwalk, zfile, opened, cli,
                   compression_level, histVars, attempts, deleted>>

---------------------------------------------------------------------------
(* main() of zipper.py *)

Digits == <<"0", "1", "2", "3", "4", "5", "6", "7", "8", "9">>
IsDigit(c) == \E d \in 1..10 : Digits[d] = c
DigitVal(c) == (CHOOSE d \in 1..10 : Digits[d] = c) - 1

RECURSIVE Decimal(_)
Decimal(s) ==
    IF s = <<>> THEN 0
    ELSE 10 * Decimal(SubSeq(s, 1, Len(s) - 1)) + DigitVal(s[Len(s)])

AllDigits(s) == s # <<>> /\ \A i \in 1..Len(s) : IsDigit(s[i])

\* int(compression_input): the value, or ValueError
ParseInt(s) ==
    IF AllDigits(s) THEN [ok |-> TRUE, val |-> Decimal(s)]
    ELSE IF s # <<>> /\ s[1] \in {"+", "-"} /\ AllDigits(Tail(s))
    THEN [ok |-> TRUE,
          val |-> IF s[1] = "-" THEN 0 - Decimal(Tail(s))
                  ELSE Decimal(Tail(s))]
    ELSE [ok |-> FALSE, val |-> 0]

Min(a, b) == IF a < b THEN a ELSE b
Max(a, b) == IF a > b THEN a ELSE b

\* a prompt that takes a number outside 0..9 for no number at all
CompressionLevelOrDefault(input) ==
    IF input = <<>> THEN 6
    ELSE IF ParseInt(input).ok /\ ParseInt(input).val \in 0..9
    THEN ParseInt(input).val
    ELSE 6

\* lines 165-172 of main
CompressionLevel(input) ==
    IF input = <<>> THEN 6
    ELSE IF ParseInt(input).ok THEN Max(0, Min(9, ParseInt(input).val))
    ELSE 6

\* str.strip() of what was typed: the blanks at both ends are dropped
RECURSIVE lstrip(_)
lstrip(s) == IF s # <<>> /\ Head(s) = " " THEN lstrip(Tail(s)) ELSE s
RECURSIVE rstrip(_)
rstrip(s) ==
    IF s # <<>> /\ s[Len(s)] = " " THEN rstrip(SubSeq(s, 1, Len(s) - 1))
    ELSE s
strip(s) == rstrip(lstrip(s))

\* str.lower(): each upper-case letter is replaced by its lower-case letter
Uppers == <<"A", "E", "N", "O", "S", "Y">>
Lowers == <<"a", "e", "n", "o", "s", "y">>
lower(s) ==
    [i \in 1..Len(s) |->
        IF \E k \in 1..Len(Uppers) : Uppers[k] = s[i]
        THEN Lowers[CHOOSE k \in 1..Len(Uppers) : Uppers[k] = s[i]]
        ELSE s[i]]

\* a confirmation that takes every answer beginning with y for a yes
ProceedsOnLeadingY(typed) ==
    lower(strip(typed)) # <<>> /\ Head(lower(strip(typed))) = "y"

\* confirm = input(...).strip().lower(); confirm in ['y', 'yes']
Proceeds(typed) ==
    lower(strip(typed)) \in {<<"y">>, <<"y", "e", "s">>}

\* main() of cleaner.py from its prompts to its call of the cleaner, or to
\* its return when the run is not confirmed
MainClean(choices, confirms) ==
    /\ pc = "idle" /\ stack = <<>> /\ calls = 0
    /\ BeginCall("cleaner.main")
    /\ \E ch \in choices, cf \in confirms :
        /\ cli' = [choice |-> ch, output |-> "", level |-> <<>>,
                   confirm |-> cf]
        /\ IF ~Proceeds(cf)
           THEN /\ message' = "Operation cancelled."
                /\ UNCHANGED <<statVars, ctlVars, walkVars, caVars>>
           ELSE /\ message' = ""
                /\ removed_count' = 0
                /\ removed_size' = 0
                /\ IF ch = "3"
                   THEN clean_all(<<"main">>, 0, 0)
                   ELSE /\ stack' = <<"main",
                                      IF ch = "1" THEN "clean_python_cache"
                                      ELSE "clean_react_cache">>
                        /\ pc' = "walk"
                        /\ walk' = StartWalk(tree)
                        /\ body' = NoBody
                        /\ UNCHANGED caVars
    /\ UNCHANGED <<envVars, tree, exclude_patterns, zipVars,
                   compression_level, attempts>>

\* the cleaner returned to main() of cleaner.py, which prints and returns
MainCleanDone ==
    /\ pc = "return" /\ stack = <<"main">>
    /\ message' = "Cleaning completed"
    /\ stack' = <<>>
    /\ pc' = "idle"
    /\ UNCHANGED <<envVars, tree, statVars, walkVars, caVars,
                   exclude_patterns, zipVars, cli, compression_level,
                   histVars, attempts, deleted>>

\* main() from its prompts to its call of the zipper, or to its return when
\* the run is not confirmed
MainZip(choices, outputs, inputs, confirms) ==
    /\ pc = "idle" /\ stack = <<>> /\ calls = 0
    /\ BeginCall("main")
    /\ \E ch \in choices, o \in outputs, in \in inputs, cf \in confirms :
        /\ cli' = [choice |-> ch, output |-> o, level |-> in, confirm |-> cf]
        /\ compression_level' = CompressionLevel(in)
        /\ IF ~Proceeds(cf)
           THEN /\ message' = "Operation cancelled."
                /\ UNCHANGED <<statVars, ctlVars, walkVars, caVars,
                               exclude_patterns, zipVars, attempts>>
           ELSE /\ message' = ""
                /\ exclude_patterns' = {}
                /\ IF ch = "2"
                   THEN create_zip(<<"main", "create_clean_zip">>,
                                   IF o = "" THEN "None" ELSE o, TRUE, 6)
                   ELSE create_zip(<<"main">>,
                                   IF o = "" THEN "None" ELSE o, FALSE,
                                   CompressionLevel(in))
    /\ UNCHANGED <<envVars, tree>>

---------------------------------------------------------------------------
(* The cleaner on its own: one DirectoryCleaner, any calls of its methods. *)
(* The cleaner never reads the name of its root; the root bears a target   *)
(* name, the case in which a scan that looked at it would remove it.       *)

CleanRoots == { <<"/", "work", "node_modules">> }
DirNames == {"__pycache__", "dist", "node_modules", "htmlcov",
             "pkg.egg-info", "src"}
FileNames == {"a.txt", "x.pyc"}

InitClean == InitIn(CleanRoots, {EmptyTree})

NextClean ==
    \/ EnvMkdir(DirNames)
    \/ EnvTouch(FileNames)
    \/ EnvRmFault
    \/ CallCleanPython
    \/ CallCleanReact
    \/ CallCleanAll
    \/ WalkNext
    \/ RemoveFolderStep
    \/ RemoveFileStep
    \/ PassReturn
    \/ CleanAllReact
    \/ CleanAllSummary

SpecClean == InitClean /\ [][NextClean]_vars

\* the steps of a method that has been called: the interpreter runs it on
PassStep ==
    \/ WalkNext
    \/ RemoveFolderStep
    \/ RemoveFileStep
    \/ PassReturn
    \/ CleanAllReact
    \/ CleanAllSummary

SpecCleanFair == SpecClean /\ WF_vars(PassStep)

---------------------------------------------------------------------------
(* The zipper: one DirectoryZipper, patterns registered, then create_zip   *)
(* or create_clean_zip.                                                    *)

ZipRoots == { <<"/", "work", "proj">>, <<"/", "build", "dist">> }
ZipDirNames == {"node_modules", "tmp"}
ZipFileNames == {"tmpfile", "tmp", "x.pyc"}
\* the arguments of add_exclude_patterns: a str, or a list of str
ZipPatterns == { [kind |-> "str", val |-> "tmp"],
                 [kind |-> "list", val |-> <<"tmp">>] }
ZipOutputs == {"out.zip"}
ZipLevels == {6}

InitZip == InitIn(ZipRoots, {EmptyTree})

NextZip ==
    \/ EnvMkdir(ZipDirNames)
    \/ EnvTouch(ZipFileNames)
    \/ EnvRmFault
    \/ EnvAddFault
    \/ EnvOpenFault
    \/ \E p \in ZipPatterns : add_exclude_patterns(p)
    \/ CallCreateZip(ZipOutputs, ZipLevels)
    \/ CallCreateCleanZip(ZipOutputs)
    \/ WalkNext
    \/ RemoveFolderStep
    \/ RemoveFileStep
    \/ CleanAllReact
    \/ CleanAllSummary
    \/ ZipOpen
    \/ ZipOpenFails
    \/ ZipFile
    \/ ZipCount
    \/ ZipDescend
    \/ ZipFinish

Spec == InitZip /\ [][NextZip]_vars

\* the steps of a create_zip that has been called
ZipStep ==
    \/ WalkNext
    \/ RemoveFolderStep
    \/ RemoveFileStep
    \/ CleanAllReact
    \/ CleanAllSummary
    \/ ZipOpen
    \/ ZipOpenFails
    \/ ZipFile
    \/ ZipCount
    \/ ZipDescend
    \/ ZipFinish

SpecFair == Spec /\ WF_vars(ZipStep)

---------------------------------------------------------------------------
(* create_zip on a directory of about a hundred files. The order in which  *)
(* os.walk lists the files is free, so the walk is taken up at a state the *)
(* loop reaches: the first files of the listing have been added, and the   *)
(* files that remain, one of them excluded, are visited in every order.    *)

ProgressRoot == <<"/", "work", "proj">>
EarlyFiles == {"f" \o ToString(i) : i \in 1..(ProgressEvery - 3)}
LateFiles == {"tmp", "tmpfile", "x.pyc", "a.txt", "b.txt"}
ProgressTree ==
    [p \in {Root} \cup {<<f>> : f \in EarlyFiles \cup LateFiles} |->
        IF p = Root THEN Dir ELSE File(SizeOf(Name(p)))]
EarlyEntries ==
    {[name |-> <<Name(ProgressRoot), f>>, src |-> <<f>>,
      size |-> ProgressTree[<<f>>].size] : f \in EarlyFiles}

InitProgress ==
    /\ rootParts = ProgressRoot
    /\ cwd = "elsewhere"
    /\ tree = ProgressTree
    /\ rmFail = {}
    /\ addFail \in {{}} \cup {{<<f>>} : f \in LateFiles}
    /\ openFail = FALSE
    /\ removed_count = 0
    /\ removed_size = 0
    /\ stack = <<"create_zip">>
    /\ pc = "files"
    /\ walk = <<>>
    /\ body = NoBody
    /\ initial_count = 0
    /\ initial_size = 0
    /\ summary = NoSummary
    /\ exclude_patterns = {"tmp"}
    /\ zargs = [output_path |-> "out.zip", clean_first |-> FALSE,
                compression_level |-> 6]
    /\ zipf = [state |-> "open", name |-> "out.zip", level |-> 6]
    /\ archive = SetToBag(EarlyEntries)
    /\ total_files = Cardinality(EarlyFiles)
    /\ compressed_files = Cardinality(EarlyFiles)
    /\ zwalk = <<[root |-> Root, pending |-> {}, files |-> LateFiles]>>
    /\ zfile = "None"
    /\ result = "None"
    /\ cli = NoCli
    /\ compression_level = 0
    /\ message = ""
    /\ calls = 1
    /\ prevFn = "none"
    /\ cur = [fn |-> "create_zip", count0 |-> 0, size0 |-> 0,
              tree0 |-> ProgressTree]
    /\ attempts = SetToBag({zipf_write(<<f>>, TRUE) : f \in EarlyFiles})
    /\ deleted = {}
    /\ opened = {Root}
    /\ notices = 0

NextProgress ==
    \/ ZipFile
    \/ ZipCount
    \/ ZipFinish

SpecProgress == InitProgress /\ [][NextProgress]_vars

---------------------------------------------------------------------------
(* The two classes on a root that is missing, is a plain file, or is a     *)
(* directory: neither constructor looks at the path it is given.           *)

NoTree == [p \in {} |-> Dir]
RootTrees ==
    { NoTree,
      (Root :> File(1)),
      (Root :> Dir) @@ (<<"__pycache__">> :> Dir) @@ (<<"x.pyc">> :> File(2))
        @@ (<<"src">> :> Dir) @@ (<<"src", "a.txt">> :> File(1)) }

BadRoots == { <<"/", "work", "proj">> }
InitRoot == InitIn(BadRoots, RootTrees)

NextRoot ==
    \/ EnvOpenFault
    \/ CallCleanPython
    \/ CallCleanReact
    \/ CallCleanAll
    \/ CallCreateZip(ZipOutputs, ZipLevels)
    \/ CallCreateCleanZip(ZipOutputs)
    \/ WalkNext
    \/ RemoveFolderStep
    \/ RemoveFileStep
    \/ PassReturn
    \/ CleanAllReact
    \/ CleanAllSummary
    \/ ZipOpen
    \/ ZipOpenFails
    \/ ZipFile
    \/ ZipCount
    \/ ZipDescend
    \/ ZipFinish

SpecRoot == InitRoot /\ [][NextRoot]_vars

---------------------------------------------------------------------------
(* The command line of the zipper *)

MaxInputLen == 2    \* characters typed at the compression-level prompt

CliRoots == { <<"/", "work", "proj">> }
Chars == {"0", "1", "5", "9", "a", "-"}

RECURSIVE Strings(_)
Strings(n) ==
    IF n = 0 THEN {<<>>}
    ELSE Strings(n - 1)
           \cup {Append(s, c) : s \in Strings(n - 1), c \in Chars}

LevelInputs == Strings(MaxInputLen) \cup {<<"a", "b", "c">>}

\* the directories main is run on
CliTrees ==
    { (Root :> Dir) @@ (<<"src">> :> Dir) @@ (<<"src", "a.txt">> :> File(1)),
      (Root :> Dir) @@ (<<"node_modules">> :> Dir) @@ (<<"x.pyc">> :> File(2))
        @@ (<<"src">> :> Dir) @@ (<<"a.txt">> :> File(1)) }

\* what is typed at the confirmation prompt
Confirms ==
    { <<"y">>, <<" ", "Y", " ">>, <<"Y", "E", "S">>, <<"y", "e", "s", " ">>,
      <<>>, <<"n">>, <<"y", "a">>, <<"y", " ", "e", "s">>, <<"N", "O">> }

InitCli == InitIn(CliRoots, CliTrees)

NextCli ==
    \/ EnvOpenFault
    \/ MainZip({"1", "2"}, {"", "out.zip"}, LevelInputs, Confirms)
    \/ MainClean({"1", "2", "3"}, Confirms)
    \/ MainCleanDone
    \/ WalkNext
    \/ PassReturn
    \/ RemoveFolderStep
    \/ RemoveFileStep
    \/ CleanAllReact
    \/ CleanAllSummary
    \/ ZipOpen
    \/ ZipOpenFails
    \/ ZipFile
    \/ ZipCount
    \/ ZipDescend
    \/ ZipFinish

SpecCli == InitCli /\ [][NextCli]_vars

---------------------------------------------------------------------------
(* Properties of the cleaner, checked under SpecClean *)

CleanerFns == {"clean_python_cache", "clean_react_cache", "clean_all"}
Finished == pc = "idle" /\ stack = <<>> /\ cur.fn # "none"

DirsOf(t) == {p \in DOMAIN t \ {Root} : t[p].kind = "dir"}
FilesOf(t) == {p \in DOMAIN t : t[p].kind = "file"}
DirsNamed(t, names) == {p \in DirsOf(t) : Name(p) \in names}

\* the remove_folder calls of the current call that returned True
Removed ==
    {a.path : a \in {x \in BagToSet(attempts) :
                       x.op = "remove_folder" /\ x.ok /\ x.call = calls}}
\* the paths the current call has tried to remove
Tried(op) ==
    {a.path : a \in {x \in BagToSet(attempts) :
                       x.op = op /\ x.call = calls}}

\* C3: when the same clean pass runs twice in succession with no removal
\* error, the second pass deletes nothing and leaves removed_count and
\* removed_size as they were when it began.
C3_SecondPassRemovesNothing ==
    (rmFail = {} /\ cur.fn \in CleanerFns /\ prevFn = cur.fn)
        => /\ removed_count = cur.count0
           /\ removed_size = cur.size0
           /\ deleted = {}
           /\ tree = cur.tree0
           /\ (Finished /\ cur.fn = "clean_all"
                 => summary = [printed |-> TRUE, folders |-> 0, bytes |-> 0])

\* the second clean_all has returned, after a first one that removed folders
\* holding files
C3_Witness ==
    /\ Finished /\ rmFail = {} /\ calls = 2
    /\ cur.fn = "clean_all" /\ prevFn = "clean_all"
    /\ cur.count0 > 0 /\ cur.size0 > 0

\* the directory names of the language-runtime target set
PythonTargetNames ==
    Range(PYTHON_CLEAN_TARGETS) \ {"*.pyc", "*.pyo", "*.egg-info"}
LanguageCacheDirs(t) ==
    {p \in DirsOf(t) :
        Name(p) \in PythonTargetNames \/ EndsWith(Name(p), ".egg-info")}

\* C4: a clean_python_cache pass with no removal error removes exactly the
\* directories that bear a language-cache directory name, nested ones
\* included, and removed_count grows by their number.
C4_RemovesExactlyTheCacheDirs ==
    (Finished /\ cur.fn = "clean_python_cache" /\ rmFail = {})
        => /\ Removed = LanguageCacheDirs(cur.tree0)
           /\ removed_count - cur.count0
                = Cardinality(LanguageCacheDirs(cur.tree0))

\* C5: after clean_all with no removal error no directory named __pycache__
\* or node_modules is left, the root directory is still there (in every
\* state, whatever its name), and the summary reports at least one folder
\* when such a directory existed at the start.
C5_CleanAllLeavesNoCache ==
    /\ IsDir(tree, Root)
    /\ (Finished /\ cur.fn = "clean_all" /\ rmFail = {})
        => /\ DirsNamed(tree, {"__pycache__", "node_modules"}) = {}
           /\ summary.printed
           /\ DirsNamed(cur.tree0, {"__pycache__", "node_modules"}) # {}
                => summary.folders >= 1

\* clean_all has returned on a tree that held a __pycache__ and a
\* node_modules, under a root itself named node_modules
C5_Witness ==
    /\ Finished /\ cur.fn = "clean_all" /\ rmFail = {}
    /\ DirsNamed(cur.tree0, {"__pycache__"}) # {}
    /\ DirsNamed(cur.tree0, {"node_modules"}) # {}
    /\ rootParts[Len(rootParts)] = "node_modules"

\* a directory the two target sets name, or an .egg-info directory
IsTargetDir(t, q) ==
    /\ q \in DirsOf(t)
    /\ \/ Name(q) \in Range(PYTHON_CLEAN_TARGETS)
       \/ Name(q) \in Range(REACT_CLEAN_TARGETS)
       \/ EndsWith(Name(q), ".egg-info")

\* C9: in every state of every scan, each entry deleted since the call began
\* is a target directory, a .pyc or .pyo file, or lies under a target
\* directory; the tree is what it was less the deleted entries, and the root
\* is never among them.
C9_DeletesOnlyTargets ==
    cur.fn \in CleanerFns
        => /\ \A e \in deleted :
                /\ e.path # Root
                /\ e.path \in DOMAIN cur.tree0
                /\ cur.tree0[e.path].kind = e.kind
                /\ \/ /\ e.kind = "file"
                      /\ \/ EndsWith(Name(e.path), ".pyc")
                         \/ EndsWith(Name(e.path), ".pyo")
                   \/ \E n \in 1..Len(e.path) :
                        IsTargetDir(cur.tree0, SubSeq(e.path, 1, n))
           /\ DOMAIN tree = DOMAIN cur.tree0 \ {e.path : e \in deleted}
           /\ \A p \in DOMAIN tree : tree[p] = cur.tree0[p]

\* a file that is no .pyc has gone with the target directory above it
C9_Witness ==
    /\ cur.fn \in CleanerFns
    /\ \E e \in deleted : e.kind = "file" /\ Name(e.path) = "a.txt"
    /\ \E e \in deleted : e.kind = "dir"

\* what a pass of fn is to remove in the tree t
Matching(fn, t) ==
    {p \in DirsOf(t) :
        \/ /\ fn \in {"clean_python_cache", "clean_all"}
           /\ \/ Name(p) \in {"__pycache__"} \cup Range(PyTargetDirs)
              \/ EndsWith(Name(p), ".egg-info")
        \/ /\ fn \in {"clean_react_cache", "clean_all"}
           /\ Name(p) \in Range(REACT_CLEAN_TARGETS)}
MatchingFiles(fn, t) ==
    {p \in FilesOf(t) :
        /\ fn \in {"clean_python_cache", "clean_all"}
        /\ EndsWith(Name(p), ".pyc") \/ EndsWith(Name(p), ".pyo")}

RECURSIVE SizeSum(_)
SizeSum(S) ==
    IF S = {} THEN 0
    ELSE LET a == CHOOSE x \in S : TRUE
         IN  a.size * CopiesIn(a, attempts) + SizeSum(S \ {a})
Successes ==
    {x \in BagToSet(attempts) : x.op = "remove_folder" /\ x.ok
                                   /\ x.call = calls}

\* the entries that went while a directory above them was being removed,
\* whether or not that removal got to the end
WentAlong ==
    {e.path : e \in {x \in deleted :
                       \E a \in BagToSet(attempts) :
                           /\ a.op = "remove_folder"
                           /\ a.path # x.path
                           /\ IsPrefix(a.path, x.path)}}

\* in every state of a pass the counters hold what the successful removals
\* added; when the pass has returned, every directory and file it is to
\* remove was tried, or went while a directory above it was being removed
PassKeepsGoing ==
    cur.fn \in CleanerFns
        => /\ removed_count = cur.count0 + Cardinality(Removed)
           /\ removed_size = cur.size0 + SizeSum(Successes)
           /\ Finished
                => /\ Matching(cur.fn, cur.tree0)
                        \subseteq Tried("remove_folder") \cup WentAlong
                   /\ MatchingFiles(cur.fn, cur.tree0)
                        \subseteq Tried("os.remove") \cup WentAlong

\* a pass has returned in which one removal failed and another succeeded
C10_Witness ==
    /\ Finished /\ cur.fn \in CleanerFns
    /\ \E a \in BagToSet(attempts) : ~a.ok /\ a.call = calls
    /\ \E a \in BagToSet(attempts) : a.ok /\ a.call = calls
    /\ removed_count > cur.count0

\* C10: a removal that fails does not end the pass. Every pass that is
\* called returns, whatever removals fail; it has then tried every matching
\* directory and file that was still there, and the counters keep what the
\* successful removals added.
C10_FailureDoesNotAbort ==
    /\ []PassKeepsGoing
    /\ (cur.fn \in CleanerFns /\ ~Finished) ~> Finished

\* one step of the program: the counters do not go down, and a step that
\* changes one of them is a remove_folder call that returned True, adding 1
\* to removed_count and the size it measured to removed_size
CountersStep ==
    /\ removed_count' >= removed_count
    /\ removed_size' >= removed_size
    /\ (removed_count' # removed_count \/ removed_size' # removed_size)
         => \E a \in BagToSet(attempts') :
              /\ a.op = "remove_folder" /\ a.ok
              /\ CopiesIn(a, attempts') = CopiesIn(a, attempts) + 1
              /\ removed_count' = removed_count + 1
              /\ removed_size' = removed_size + a.size

\* C13: removed_count and removed_size of a DirectoryCleaner start at 0,
\* never decrease over the steps of any sequence of passes, and are changed
\* only by remove_folder.
C13_CountersOnlyGrow ==
    /\ removed_count = 0 /\ removed_size = 0
    /\ [][CountersStep]_vars

\* a second pass has added to a removed_count the first pass left above 0
C13_Witness ==
    /\ calls = 2 /\ cur.fn \in CleanerFns /\ cur.count0 > 0
    /\ removed_count > cur.count0

\* the names clean_python_cache hands to remove_folder
IsPythonPassName(n) ==
    n \in {"__pycache__", ".pytest_cache", ".mypy_cache", ".ruff_cache",
           "dist", "build"}
      \/ EndsWith(n, ".egg-info")

\* C17: clean_all runs the language-cache scan and then the toolchain scan:
\* while the first runs only its names are tried, and when the second runs
\* the first has been over the whole tree. The folders and bytes it reports
\* are the counters at the end less the counters at the start of this call,
\* the removals of this call alone.
C17_CleanAllReportsThisCall ==
    cur.fn = "clean_all"
        => /\ initial_count = cur.count0 /\ initial_size = cur.size0
           /\ (stack # <<>> /\ Top = "clean_python_cache")
                => \A p \in Tried("remove_folder") : IsPythonPassName(Name(p))
           /\ (stack # <<>> /\ Top = "clean_react_cache")
                => Matching("clean_python_cache", cur.tree0)
                     \subseteq Tried("remove_folder") \cup WentAlong
           /\ ~Finished => ~summary.printed
           /\ Finished
                => /\ summary = [printed |-> TRUE,
                                 folders |-> removed_count - cur.count0,
                                 bytes |-> removed_size - cur.size0]
                   /\ summary.folders = Cardinality(Removed)
                   /\ summary.bytes = SizeSum(Successes)

\* a clean_all on a DirectoryCleaner with a removal already counted has
\* returned and reported a removal of its own
C17_Witness ==
    /\ Finished /\ cur.fn = "clean_all" /\ calls = 2
    /\ cur.count0 > 0
    /\ summary.folders > 0 /\ summary.folders < removed_count

\* the remove_folder calls of the current call
FolderAttempts ==
    {a \in BagToSet(attempts) : a.op = "remove_folder" /\ a.call = calls}

\* C20: during one clean_all no directory is handed to remove_folder more
\* than once, whether the first attempt removed it or failed.
C20_NoSecondAttempt ==
    cur.fn = "clean_all"
        => \A a, b \in FolderAttempts :
             a.path = b.path => (a = b /\ CopiesIn(a, attempts) = 1)

\* C21: when clean_python_cache has returned with no removal error, no
\* directory under the root is left whose name is a directory name of
\* PYTHON_CLEAN_TARGETS or ends with .egg-info.
C21_NoLanguageCacheDirLeft ==
    (Finished /\ cur.fn = "clean_python_cache" /\ rmFail = {})
        => LanguageCacheDirs(tree) = {}

\* the files that were in the tree t in or below the directories of S
FilesInside(t, S) ==
    {q \in FilesOf(t) : \E p \in S : IsPrefix(p, q)}

\* C22: the bytes a clean_python_cache pass adds to removed_size are the
\* bytes of all files that were inside the directories it removed when the
\* pass began, .pyc and .pyo files included.
C22_BytesOfRemovedDirs ==
    (Finished /\ cur.fn = "clean_python_cache" /\ rmFail = {})
        => removed_size - cur.size0
             = SumSizes(cur.tree0, FilesInside(cur.tree0, Removed))

\* the os.remove calls of the current call, and a step that makes one
FileRemovals ==
    {a \in BagToSet(attempts) : a.op = "os.remove" /\ a.call = calls}
RemovesFile ==
    \E a \in BagToSet(attempts') :
        /\ a.op = "os.remove"
        /\ CopiesIn(a, attempts') > CopiesIn(a, attempts)

\* C25: deleting a .pyc or .pyo file, whether os.remove succeeds or raises,
\* leaves removed_count and removed_size as they were; a call that has
\* handed no folder to remove_folder still has the counters it began with,
\* however many files it deleted.
C25_FileRemovalLeavesCounters ==
    /\ [][RemovesFile => /\ removed_count' = removed_count
                         /\ removed_size' = removed_size]_vars
    /\ []((cur.fn \in CleanerFns /\ FolderAttempts = {})
            => /\ removed_count = cur.count0
               /\ removed_size = cur.size0)

\* a pass has deleted a file of 2 bytes, has tried no folder, and has the
\* counters it began with
C25_Witness ==
    /\ Finished /\ cur.fn = "clean_python_cache"
    /\ \E a \in FileRemovals : a.ok /\ cur.tree0[a.path].size = 2
    /\ FolderAttempts = {}
    /\ removed_count = cur.count0 /\ removed_size = cur.size0

\* the number of remove_folder calls of the set S that returned True
RECURSIVE TrueCalls(_)
TrueCalls(S) ==
    IF S = {} THEN 0
    ELSE LET a == CHOOSE x \in S : TRUE
         IN  (IF a.op = "remove_folder" /\ a.ok THEN CopiesIn(a, attempts)
              ELSE 0) + TrueCalls(S \ {a})

\* the step is the remove_folder call a
IsCall(a) ==
    /\ a.op = "remove_folder"
    /\ CopiesIn(a, attempts') = CopiesIn(a, attempts) + 1

\* C29: remove_folder returns True exactly when the folder existed and was
\* removed, and then removed_count grows by one and removed_size by the size
\* measured before the removal; in every other case (the folder is missing
\* or its removal raised) it returns False and leaves both counters as they
\* were. removed_count is the number of calls that returned True.
C29_TrueExactlyWhenRemoved ==
    /\ [](removed_count = TrueCalls(BagToSet(attempts)))
    /\ [][\A a \in BagToSet(attempts') :
            IsCall(a)
              => /\ a.ok <=> (Exists(tree, a.path) /\ ~Exists(tree', a.path))
                 /\ a.ok => /\ removed_count' = removed_count + 1
                            /\ removed_size' = removed_size
                                 + get_directory_size(tree, a.path)
                 /\ ~a.ok => /\ removed_count' = removed_count
                             /\ removed_size' = removed_size]_vars

\* a call has removed one folder and failed to remove another, which is
\* still there: one folder is counted
C29_Witness ==
    /\ \E a \in FolderAttempts : ~a.ok /\ Exists(tree, a.path)
    /\ \E a \in FolderAttempts : a.ok /\ ~Exists(tree, a.path)
    /\ removed_count = 1

---------------------------------------------------------------------------
(* Properties of the zipper, checked under Spec *)

Entries == BagToSet(archive)
ZipClosed == zipf.state = "closed"

\* the names that exclude a directory: the registered patterns and the
\* built-in cache names
ExcludingNames ==
    exclude_patterns \cup
    {"__pycache__", "node_modules", ".next", ".git", ".vscode", ".idea",
     "dist", "build", ".cache"}

\* the directories on the way from the root down to the directory p
DirSegments(p) == {p[i] : i \in 1..Len(p)}
\* the directories above the file p
DirsAbove(p) == DirSegments(Parent(p))

\* C1: during create_zip no directory with a segment that is a registered
\* pattern or a built-in cache name is opened, none is left in a yielded
\* directory list to be descended into, and no file beneath one is in the
\* archive.
C1_ExcludedDirsNeverOpened ==
    /\ \A p \in opened : DirSegments(p) \cap ExcludingNames = {}
    /\ \A i \in 1..Len(zwalk) :
          /\ zwalk[i].pending \cap ExcludingNames = {}
          /\ DirSegments(zwalk[i].root) \cap ExcludingNames = {}
    /\ \A e \in Entries : DirsAbove(e.src) \cap ExcludingNames = {}

\* an archive was written of a tree that holds a file in a directory bearing
\* a registered pattern, which the walk from the root did not open
C1_Witness ==
    /\ ZipClosed
    /\ Root \in opened
    /\ \E p \in FilesOf(tree) :
          /\ Len(p) = 2
          /\ p[1] \in exclude_patterns
          /\ Parent(p) \notin opened

\* the files of the tree create_zip was called on that no cleaning deleted
FilesToArchive ==
    FilesOf(cur.tree0) \ {e.path : e \in deleted}

\* C2: with no pattern registered, no file or directory of the tree bearing
\* a built-in cache name and no error adding a file, the closed archive holds
\* exactly one entry per file of the tree, with the content of the file, at
\* <name of the source directory>/<path of the file below the source
\* directory>.
C2_ArchiveRoundTrip ==
    ( /\ ZipClosed
      /\ exclude_patterns = {}
      /\ addFail = {}
      /\ \A p \in DOMAIN cur.tree0 :
            DirSegments(p) \cap Range(cache_patterns) = {} )
        => /\ Entries =
                {[name |-> <<rootParts[Len(rootParts)]>> \o p, src |-> p,
                  size |-> cur.tree0[p].size] : p \in FilesToArchive}
           /\ \A e \in Entries : CopiesIn(e, archive) = 1

\* C6: the archive of a create_zip with clean_first has no entry under a
\* node_modules directory, whether or not a pattern was registered and
\* whether or not the cleaner removed node_modules.
C6_NoNodeModulesEntry ==
    zargs.clean_first
        => \A e \in Entries : "node_modules" \notin Range(e.name)

\* an archive was written with clean_first and no pattern registered, of a
\* tree in which the cleaner failed to remove node_modules and its file
C6_Witness ==
    /\ ZipClosed /\ zargs.clean_first /\ exclude_patterns = {}
    /\ Root \in opened
    /\ \E a \in BagToSet(attempts) :
          a.op = "remove_folder" /\ ~a.ok /\ Name(a.path) = "node_modules"
    /\ \E p \in FilesOf(tree) : "node_modules" \in DirsAbove(p)

---------------------------------------------------------------------------
(* Properties of the command line, checked under SpecCli *)

Prompted == cur.fn = "main" /\ cli.level # <<>>
\* what was typed is a number / is a number of the range 0..9
Numeric == ParseInt(cli.level).ok
InRange == Numeric /\ ParseInt(cli.level).val \in 0..9

\* C7, as the specification words it: an input that is no number, or a
\* number outside 0..9 such as "15", gives compression_level = 6.
C7_InvalidFallsBackToDefault ==
    (Prompted /\ ~InRange) => compression_level = 6

\* C7, as the code has it: an input that is no number gives
\* compression_level = 6; a number above 9 gives 9 and a number below 0
\* gives 0.
C7_InvalidIsClampedOrDefault ==
    Prompted =>
        /\ ~Numeric => compression_level = 6
        /\ (Numeric /\ ParseInt(cli.level).val > 9) => compression_level = 9
        /\ (Numeric /\ ParseInt(cli.level).val < 0) => compression_level = 0

\* "15" was typed at the prompt
C7_Witness ==
    /\ Prompted /\ cli.level = <<"1", "5">>
    /\ compression_level = 9

\* C8: a level of 0..9 typed at the prompt is the deflate level the archive
\* is written with, in both zip modes.
C8_LevelInRangeIsHonored ==
    (Prompted /\ InRange /\ zipf.state # "none")
        => zipf.level = ParseInt(cli.level).val

---------------------------------------------------------------------------
(* Properties of the zipper under failures, checked under SpecFair *)

ZipFns == {"create_zip", "create_clean_zip"}
Returned == pc = "idle" /\ stack = <<>> /\ cur.fn # "none"
\* the files of the directories the walk yielded
VisitedFiles == {p \in FilesOf(tree) : Parent(p) \in opened}
WriteAttempts ==
    {a \in BagToSet(attempts) : a.op = "zipf.write" /\ a.call = calls}

\* when the archive is closed the output path was returned, and every file
\* of a yielded directory that is not excluded and whose add did not fail
\* has its entry
OtherFilesAdded ==
    ZipClosed
        => /\ result = zipf.name
           /\ \A p \in VisitedFiles :
                (~should_exclude(AbsParts(p), exclude_patterns)
                    /\ p \notin addFail)
                  => \E e \in Entries : e.src = p

\* an archive was closed in which the add of one file failed and another
\* file has its entry
C11_Witness ==
    /\ ZipClosed
    /\ \E a \in WriteAttempts : ~a.ok
    /\ \E a \in WriteAttempts : a.ok
    /\ Entries # {}

\* C11: a file that cannot be added is the only one left out. Every
\* create_zip whose archive can be opened closes it and returns the output
\* path, whatever adds fail, and every other non-excluded file it visited
\* is in the archive.
C11_AddFailureSkipsOneFile ==
    /\ []OtherFilesAdded
    /\ (cur.fn \in ZipFns /\ ~openFail) ~> ZipClosed

\* the files under the source root no segment of whose path excludes them
FilesNotExcluded ==
    {p \in FilesOf(tree) : Range(AbsParts(p)) \cap ExcludingNames = {}}

\* C14: in one create_zip pass no file is handed to zipf.write twice and no
\* two entries of the archive have the same path; when the archive is
\* closed, zipf.write was tried once for every non-excluded file under the
\* source root and for no other.
C14_EachFileVisitedOnce ==
    /\ \A a \in WriteAttempts : CopiesIn(a, attempts) = 1
    /\ \A a, b \in WriteAttempts : a.path = b.path => a = b
    /\ \A e \in Entries : CopiesIn(e, archive) = 1
    /\ \A e, f \in Entries : e.name = f.name => e = f
    /\ ZipClosed => {a.path : a \in WriteAttempts} = FilesNotExcluded

\* an archive was closed for which a file of the root and a file of a
\* subdirectory were handed to zipf.write
C14_Witness ==
    /\ ZipClosed
    /\ \E a \in WriteAttempts : Len(a.path) = 1
    /\ \E a \in WriteAttempts : Len(a.path) = 2

\* C15: should_exclude is true of a path exactly when one of its segments
\* is, as a whole, a registered pattern or one of the nine built-in names; a
\* pattern that is only part of a segment does not match, and a pattern
\* passed as one string is registered as that one pattern.
C15_WholeSegmentMatch ==
    /\ exclude_patterns \subseteq {"tmp"}
    /\ \A p \in DOMAIN tree :
          should_exclude(AbsParts(p), exclude_patterns)
            <=> (Range(AbsParts(p)) \cap ExcludingNames # {})
    /\ \A p \in DOMAIN tree \ {Root} :
          (Name(p) = "tmpfile" /\ DirSegments(Parent(p)) = {}
              /\ Range(rootParts) \cap ExcludingNames = {})
            => ~should_exclude(AbsParts(p), exclude_patterns)

\* "tmp" was registered and an archive closed that holds the file tmpfile
\* and not the file tmp beside it
C15_Witness ==
    /\ ZipClosed /\ exclude_patterns = {"tmp"}
    /\ IsFile(tree, <<"tmp">>)
    /\ \A e \in Entries : e.src # <<"tmp">>
    /\ \E e \in Entries : e.src = <<"tmpfile">>

\* the state in which create_zip(o, clean_first=True, compression_level=6)
\* begins its cleaning, below the frames pre of its callers
StartsCleanZip(pre, o) ==
    /\ zargs' = [output_path |-> o, clean_first |-> TRUE,
                 compression_level |-> 6]
    /\ stack' = pre \o <<"create_zip", "clean_all", "clean_python_cache">>
    /\ pc' = "walk"
    /\ walk' = StartWalk(tree)
    /\ body' = NoBody
    /\ removed_count' = 0 /\ removed_size' = 0
    /\ initial_count' = 0 /\ initial_size' = 0
    /\ summary' = NoSummary
    /\ zipf' = NoZip /\ archive' = EmptyBag /\ zwalk' = <<>>
    /\ zfile' = "None" /\ result' = "None" /\ opened' = {}
    /\ notices' = 0
    /\ attempts' = EmptyBag /\ deleted' = {}
    /\ UNCHANGED <<envVars, tree, exclude_patterns, total_files,
                   compressed_files, cliVars>>

\* a call of create_clean_zip begins as the call of create_zip with
\* clean_first=True and level 6 on the same output path begins, one frame
\* deeper
SameStart ==
    /\ (calls' = calls + 1 /\ cur'.fn = "create_clean_zip")
         => \E o \in ZipOutputs : StartsCleanZip(<<"create_clean_zip">>, o)
    /\ (calls' = calls + 1 /\ cur'.fn = "create_zip"
            /\ zargs'.clean_first /\ zargs'.compression_level = 6)
         => StartsCleanZip(<<>>, zargs'.output_path)

\* while create_clean_zip runs, the frames below its own are those of a
\* create_zip with clean_first=True and level 6; what it returns is what
\* that create_zip returns
SameRun ==
    cur.fn = "create_clean_zip"
        => /\ zargs.clean_first /\ zargs.compression_level = 6
           /\ stack # <<>> => /\ stack[1] = "create_clean_zip"
                              /\ stack[2] = "create_zip"
           /\ zipf.state # "none"
                => /\ zipf.level = 6
                   /\ zipf.name = OutputName(zargs.output_path)
           /\ (Returned /\ result # "raised") => result = zipf.name

\* C16: create_clean_zip(output_path) is create_zip(output_path,
\* clean_first=True) at the default level 6: both calls start the same
\* cleaning and archiving from the same filesystem, and create_clean_zip
\* returns what that create_zip returns.
C16_CleanZipIsCreateZip ==
    /\ []SameRun
    /\ [][SameStart]_vars

\* create_clean_zip has returned the path of an archive with an entry, after
\* its cleaning deleted something
C16_Witness ==
    /\ cur.fn = "create_clean_zip" /\ ZipClosed /\ result = zipf.name
    /\ deleted # {} /\ Entries # {}

\* C19, as the specification words it: the files skipped because they are
\* excluded are counted in total_files too, so the total printed is the
\* number of the files of the directories the walk yielded.
C19_SkippedFilesAreCounted ==
    ZipClosed => total_files = Cardinality(VisitedFiles)

\* C19, as the code has it: an excluded file is skipped before the counter,
\* so total_files counts the files handed to zipf.write, added or not: at
\* close it is the number of the visited files that are not excluded, and
\* compressed_files is the number of entries.
C19_SkippedFilesAreNotCounted ==
    /\ zipf.state # "none"
         => /\ total_files = Cardinality(WriteAttempts)
                               - (IF pc = "count" THEN 1 ELSE 0)
            /\ compressed_files = Cardinality(Entries)
    /\ ZipClosed
         => total_files =
              Cardinality(VisitedFiles \cap FilesNotExcluded)

\* an archive was closed after a walk that skipped an excluded file and
\* counted another file
C19_Witness ==
    /\ ZipClosed
    /\ VisitedFiles \ FilesNotExcluded # {}
    /\ total_files >= 1
    /\ total_files < Cardinality(VisitedFiles)

\* C26: whether a file is archived depends only on the segments of its path
\* below the source root and on the registered patterns: when the archive is
\* closed, zipf.write was tried for every file no segment of whose path
\* below the root is a registered pattern or a built-in name, whatever the
\* name of the root and of the directories above it.
C26_RootNameNeverExcludes ==
    ZipClosed
        => \A p \in FilesOf(tree) :
              Range(p) \cap ExcludingNames = {}
                 => \E a \in WriteAttempts : a.path = p

\* C27: the archive never has an entry for the output archive file itself,
\* also when the output path lies under the source directory.
C27_NoEntryForTheArchive ==
    \A e \in Entries : ~(cwd = "root" /\ e.src = <<zipf.name>>)

---------------------------------------------------------------------------
(* Properties of the root, checked under SpecRoot *)

\* C12: when the root a method is called on is missing or is no directory,
\* the call fails before any traversal: no directory is listed, no archive
\* file is created, and the call does not return normally.
C12_BadRootFailsBeforeTraversal ==
    (cur.fn # "none" /\ ~IsDir(cur.tree0, Root))
        => /\ walk = <<>> /\ opened = {}
           /\ zipf.state = "none"
           /\ Returned => result = "raised"

---------------------------------------------------------------------------
(* Properties of main when the archive cannot be opened, under SpecCli *)

Confirmed == cur.fn = "main" /\ Proceeds(cli.confirm)

---------------------------------------------------------------------------
(* Properties of the progress lines, checked under SpecProgress *)

\* C23: create_zip prints a progress line exactly when the number of files
\* it has added becomes a positive multiple of 100: the lines printed so far
\* number one per full hundred of added files, and a step prints a line if
\* and only if it adds a file and the count it reaches is a positive
\* multiple of 100; a step on an excluded file or on a file whose add fails
\* prints none, and none is printed while fewer than 100 files are added.
C23_ProgressEveryHundred ==
    /\ [](notices = compressed_files \div 100)
    /\ [][ /\ notices' \in {notices, notices + 1}
           /\ (notices' # notices)
                <=> /\ compressed_files' = compressed_files + 1
                    /\ compressed_files' > 0
                    /\ compressed_files' % 100 = 0 ]_vars

\* the archive is closed with 100 files added and one line printed, after
\* an excluded file was passed over and the add of another file failed
C23_Witness ==
    /\ ZipClosed /\ notices = 1 /\ compressed_files = 100
    /\ total_files = 101
    /\ \E a \in WriteAttempts : ~a.ok
    /\ \A e \in Entries : e.src # <<"tmp">>

---------------------------------------------------------------------------
(* Properties of the cleaning that create_zip asks for, checked under Spec *)

Cleaning == \E i \in 1..Len(stack) : stack[i] \in CleanerFns
Removals == {a \in BagToSet(attempts) : a.op # "zipf.write"}

\* C24: with clean_first the cleaning is over before the archive is opened
\* and before a file is added: while a cleaning function is active there is
\* no archive, no entry and no attempted add, once the archive is open
\* nothing more is deleted, and no entry of the archive is a file the call
\* deleted; without clean_first create_zip deletes nothing and attempts no
\* removal.
C24_CleaningPrecedesArchive ==
    /\ [](cur.fn \in ZipFns
            => /\ Cleaning => /\ zipf.state = "none" /\ Entries = {}
                              /\ WriteAttempts = {} /\ opened = {}
               /\ zipf.state # "none" => ~Cleaning
               /\ \A e \in Entries : \A d \in deleted : e.src # d.path
               /\ ~zargs.clean_first
                    => deleted = {} /\ Removals = {} /\ ~Cleaning)
    /\ [][(zipf.state # "none" /\ calls' = calls)
            => deleted' = deleted /\ tree' \in
            {tree, [tree EXCEPT ![<<zipf.name>>] = File(ArchiveSize)]}]_vars

\* a create_zip with clean_first has deleted entries and then archived files
C24_Witness ==
    /\ ZipClosed /\ cur.fn = "create_zip" /\ zargs.clean_first
    /\ deleted # {} /\ Entries # {}

---------------------------------------------------------------------------
(* Properties of the confirmation prompts of both mains, under SpecCli *)

Mains == {"main", "cleaner.main"}
Blanks == {<<>>, <<" ">>, <<" ", " ">>}
\* y or yes in any mix of upper and lower case, with blanks around it
TypedYes ==
    \E pre \in Blanks, post \in Blanks :
    \E w \in {<<"y">>, <<"Y">>}
               \cup {<<a, b, c>> : a \in {"y", "Y"}, b \in {"e", "E"},
                                    c \in {"s", "S"}} :
        cli.confirm = pre \o w \o post

\* C28: in the main of the cleaner and in the main of the zipper, an answer
\* to the confirmation prompt that is not y or yes (in any case, blanks
\* around it dropped) makes main print "Operation cancelled." and return at
\* once: nothing is deleted, no removal and no add is attempted, and no
\* archive is opened or created.
C28_UnconfirmedDoesNothing ==
    (cur.fn \in Mains /\ ~TypedYes)
        => /\ message = "Operation cancelled."
           /\ Returned
           /\ tree = cur.tree0 /\ deleted = {}
           /\ attempts = EmptyBag
           /\ removed_count = 0 /\ removed_size = 0
           /\ zipf.state = "none" /\ Entries = {} /\ result = "None"

\* the zipper's main was left at an answer that begins with y and is no
\* yes, on a tree that holds a cache directory and a file
C28_Witness ==
    /\ cur.fn = "main" /\ cli.confirm = <<"y", "a">> /\ cli.choice = "2"
    /\ message = "Operation cancelled."
    /\ DirsNamed(tree, {"node_modules"}) # {} /\ FilesOf(tree) # {}

---------------------------------------------------------------------------
(* Properties of the two counters of create_zip, checked under Spec *)

FailedAdds == {a \in WriteAttempts : ~a.ok}

\* C30 as stated: at every point of create_zip compressed_files is at most
\* total_files, and when the archive is closed total_files - compressed_files
\* is the number of non-excluded files whose add failed.
C30_CompressedAtMostTotalAlways ==
    /\ compressed_files <= total_files
    /\ ZipClosed => total_files - compressed_files = Cardinality(FailedAdds)

\* C30: between two files and when the archive is closed compressed_files is
\* at most total_files, the difference being the number of non-excluded
\* files whose add has failed; between the add of a file and the
\* total_files += 1 that ends its iteration compressed_files may be one more
\* than total_files, and never more than that.
C30_CompressedAtMostTotalBetweenFiles ==
    (cur.fn \in ZipFns /\ zipf.state # "none")
        => /\ ~InZip("count")
                => /\ compressed_files <= total_files
                   /\ total_files - compressed_files = Cardinality(FailedAdds)
           /\ InZip("count")
                => /\ compressed_files <= total_files + 1
                   /\ total_files + 1 - compressed_files
                        = Cardinality(FailedAdds)

\* an archive was closed after one file was added and the add of another
\* failed: 2 files in total, 1 compressed
C30_Witness ==
    /\ ZipClosed /\ Cardinality(FailedAdds) = 1
    /\ total_files = 2 /\ compressed_files = 1

====
